---- MODULE Spec2Model ----
(***************************************************************************)
(* A model of "Today I Ran" (src/src/main.rs): Run::from_options, the two  *)
(* regular expressions it searches its arguments with, f64 parsing of the  *)
(* captured groups, the uom quantities, Run::average_velocity,             *)
(* Run::time_for_distance, display_time and main.                          *)
(*                                                                         *)
(* Texts are sequences of one-character strings.  An f64 is modelled as an *)
(* extended rational [k, n, d]: k = "fin" is the number n/d in lowest      *)
(* terms, k = "inf" is n * infinity (n = 1 or -1) and k = "nan" is NaN.    *)
(* Rounding error of binary floating point and the sign of zero are not    *)
(* modelled; every uom quantity is held in its base unit (meter, second,   *)
(* meter per second) as uom does.                                          *)
(***************************************************************************)
EXTENDS Integers, Sequences, FiniteSets, TLC

(***************************************************************************)
(* Character classes of the regex crate and of str::to_lowercase.          *)
(***************************************************************************)
Digits == <<"0", "1", "2", "3", "4", "5", "6", "7", "8", "9">>

DigitChars == {Digits[i] : i \in 1..10}

DigitVal(c) == (CHOOSE i \in 1..10 : Digits[i] = c) - 1

SpaceChars == {" "}

LowerSeq ==
    <<"a", "b", "c", "d", "e", "f", "g", "h", "i", "j", "k", "l", "m",
      "n", "o", "p", "q", "r", "s", "t", "u", "v", "w", "x", "y", "z">>

UpperSeq ==
    <<"A", "B", "C", "D", "E", "F", "G", "H", "I", "J", "K", "L", "M",
      "N", "O", "P", "Q", "R", "S", "T", "U", "V", "W", "X", "Y", "Z">>

AlphaChars == {LowerSeq[i] : i \in 1..26} \cup {UpperSeq[i] : i \in 1..26}

LowerChar(c) ==
    IF \E i \in 1..26 : UpperSeq[i] = c
    THEN LowerSeq[CHOOSE i \in 1..26 : UpperSeq[i] = c]
    ELSE c

to_lowercase(s) == [i \in 1..Len(s) |-> LowerChar(s[i])]

\* End (exclusive) of the longest run of characters of class C that starts
\* at position i: what a greedy C* consumes from i.
SpanEnd(s, i, C) ==
    CHOOSE j \in i..(Len(s) + 1) :
        /\ \A k \in i..(j - 1) : s[k] \in C
        /\ j = Len(s) + 1 \/ s[j] \notin C

(***************************************************************************)
(* f64 as an extended rational.                                            *)
(***************************************************************************)
Abs(x) == IF x < 0 THEN -x ELSE x

RECURSIVE Gcd(_, _)
Gcd(a, b) == IF b = 0 THEN a ELSE Gcd(b, a % b)

RECURSIVE Pow10(_)
Pow10(e) == IF e = 0 THEN 1 ELSE 10 * Pow10(e - 1)

Fin(n, d) ==
    LET g == Gcd(Abs(n), d)
    IN  [k |-> "fin", n |-> (IF n < 0 THEN -(Abs(n) \div g) ELSE n \div g),
         d |-> d \div g]

Inf(sgn) == [k |-> "inf", n |-> sgn, d |-> 1]

NaN == [k |-> "nan", n |-> 0, d |-> 1]

Zero == Fin(0, 1)

Sgn(x) == IF x.n < 0 THEN -1 ELSE 1

IsZero(x) == x.k = "fin" /\ x.n = 0

FNeg(x) == [x EXCEPT !.n = -x.n]

FAdd(x, y) ==
    IF x.k = "nan" \/ y.k = "nan" THEN NaN
    ELSE IF x.k = "inf" /\ y.k = "inf"
         THEN (IF x.n = y.n THEN x ELSE NaN)
    ELSE IF x.k = "inf" THEN x
    ELSE IF y.k = "inf" THEN y
    ELSE LET g == Gcd(x.d, y.d)
         IN  Fin(x.n * (y.d \div g) + y.n * (x.d \div g), x.d * (y.d \div g))

FSub(x, y) == FAdd(x, FNeg(y))

FMul(x, y) ==
    IF x.k = "nan" \/ y.k = "nan" THEN NaN
    ELSE IF x.k = "inf" \/ y.k = "inf"
         THEN (IF IsZero(x) \/ IsZero(y) THEN NaN ELSE Inf(Sgn(x) * Sgn(y)))
    ELSE LET g1 == Gcd(Abs(x.n), y.d)
             g2 == Gcd(Abs(y.n), x.d)
         IN  IF x.n = 0 \/ y.n = 0 THEN Zero
             ELSE Fin(Sgn(x) * Sgn(y) * (Abs(x.n) \div g1) * (Abs(y.n) \div g2),
                      (x.d \div g2) * (y.d \div g1))

FDiv(x, y) ==
    IF x.k = "nan" \/ y.k = "nan" THEN NaN
    ELSE IF y.k = "inf"
         THEN (IF x.k = "inf" THEN NaN ELSE Zero)
    ELSE IF y.n = 0
         THEN (IF IsZero(x) THEN NaN ELSE Inf(Sgn(x)))
    ELSE IF x.k = "inf" THEN Inf(Sgn(x) * Sgn(y))
    ELSE FMul(x, Fin(Sgn(y) * y.d, Abs(y.n)))

\* f64::trunc: the integer part, rounding toward zero.
FTrunc(x) ==
    IF x.k # "fin" THEN x ELSE Fin(Sgn(x) * (Abs(x.n) \div x.d), 1)

FLess(x, y) ==
    /\ x.k # "nan" /\ y.k # "nan"
    /\ x # y
    /\ IF x.k = "inf" THEN x.n = -1
       ELSE IF y.k = "inf" THEN y.n = 1
       ELSE FSub(x, y).n < 0

I32Max == 2147483647

\* The cast "as i32": truncates, saturates at the bounds, and maps NaN to 0.
AsI32(x) ==
    IF x.k = "nan" THEN 0
    ELSE IF x.k = "inf" THEN x.n * I32Max
    ELSE FTrunc(x).n

\* Quotient and remainder of (r * k) by d for 0 <= r < d, by doubling, so
\* that no intermediate value exceeds d.
RECURSIVE MulDivMod(_, _, _)
MulDivMod(r, k, d) ==
    IF k = 0 THEN [q |-> 0, r |-> 0]
    ELSE IF k % 2 = 0
    THEN LET h == MulDivMod(r, k \div 2, d)
         IN  IF h.r >= d - h.r
             THEN [q |-> 2 * h.q + 1, r |-> h.r - (d - h.r)]
             ELSE [q |-> 2 * h.q, r |-> 2 * h.r]
    ELSE LET h == MulDivMod(r, k - 1, d)
         IN  IF h.r >= d - r
             THEN [q |-> h.q + 1, r |-> h.r - (d - r)]
             ELSE [q |-> h.q, r |-> h.r + r]

\* What "{:.3}" shows: the nearest multiple of 1/1000 (ties to even).
Round3(x) ==
    IF x.k # "fin" THEN x
    ELSE LET a == Abs(x.n)
             whole == a \div x.d
             m == MulDivMod(a % x.d, 1000, x.d)
             up == m.r > x.d - m.r \/ (m.r = x.d - m.r /\ m.q % 2 = 1)
             milli == m.q + (IF up THEN 1 ELSE 0)
         IN  FMul(Fin(Sgn(x), 1), FAdd(Fin(whole, 1), Fin(milli, 1000)))

(***************************************************************************)
(* str::parse::<f64>: Sign? ( 'inf' | 'infinity' | 'nan' | Number ), with  *)
(* Number ::= ( Digit+ | Digit+ '.' Digit* | Digit* '.' Digit+ ) Exp? and  *)
(* Exp ::= 'e' Sign? Digit+, letters in either case.  No surrounding       *)
(* whitespace is accepted.                                                 *)
(***************************************************************************)
RECURSIVE DecVal(_)
DecVal(ds) ==
    IF ds = <<>> THEN 0
    ELSE 10 * DecVal(SubSeq(ds, 1, Len(ds) - 1)) + DigitVal(ds[Len(ds)])

F64Ok(v) == [ok |-> TRUE, v |-> v]

F64Err == [ok |-> FALSE, v |-> Zero]

\* The value sgn * digits * 10^scale.
Decimal(sgn, digits, scale) ==
    IF scale >= 0
    THEN F64Ok(Fin(sgn * DecVal(digits) * Pow10(scale), 1))
    ELSE F64Ok(Fin(sgn * DecVal(digits), Pow10(-scale)))

\* The digits of an exponent, from e0 to the end of body.
ParseExpDigits(sgn, digits, fracLen, body, esgn, e0) ==
    IF e0 > Len(body) \/ SpanEnd(body, e0, DigitChars) # Len(body) + 1
    THEN F64Err
    ELSE Decimal(sgn, digits, esgn * DecVal(SubSeq(body, e0, Len(body))) - fracLen)

\* What follows the mantissa, which ends before position f1 of body.
ParseExp(sgn, body, intDigits, fracDigits, f1) ==
    IF Len(intDigits) + Len(fracDigits) = 0 THEN F64Err
    ELSE IF f1 = Len(body) + 1
    THEN Decimal(sgn, intDigits \o fracDigits, -Len(fracDigits))
    ELSE IF body[f1] \notin {"e", "E"} THEN F64Err
    ELSE IF f1 + 1 <= Len(body) /\ body[f1 + 1] \in {"+", "-"}
    THEN ParseExpDigits(sgn, intDigits \o fracDigits, Len(fracDigits), body,
                        IF body[f1 + 1] = "-" THEN -1 ELSE 1, f1 + 2)
    ELSE ParseExpDigits(sgn, intDigits \o fracDigits, Len(fracDigits), body, 1, f1 + 1)

\* The mantissa, whose integer digits end before position i1 of body.
ParseMantissa(sgn, body, i1) ==
    IF i1 <= Len(body) /\ body[i1] = "."
    THEN ParseExp(sgn, body, SubSeq(body, 1, i1 - 1),
                  SubSeq(body, i1 + 1, SpanEnd(body, i1 + 1, DigitChars) - 1),
                  SpanEnd(body, i1 + 1, DigitChars))
    ELSE ParseExp(sgn, body, SubSeq(body, 1, i1 - 1), <<>>, i1)

ParseUnsigned(sgn, body) ==
    IF to_lowercase(body) \in
          {<<"i", "n", "f">>, <<"i", "n", "f", "i", "n", "i", "t", "y">>}
    THEN F64Ok(Inf(sgn))
    ELSE IF to_lowercase(body) = <<"n", "a", "n">>
    THEN F64Ok(NaN)
    ELSE ParseMantissa(sgn, body, SpanEnd(body, 1, DigitChars))

ParseF64(s) ==
    IF Len(s) >= 1 /\ s[1] \in {"+", "-"}
    THEN ParseUnsigned(IF s[1] = "-" THEN -1 ELSE 1, Tail(s))
    ELSE ParseUnsigned(1, s)

(***************************************************************************)
(* The two regular expressions, under the regex crate's leftmost-first     *)
(* search.  The texts are command-line arguments without line breaks, so   *)
(* "." matches every character of them.                                    *)
(***************************************************************************)
NoGroup == [some |-> FALSE, str |-> <<>>]

Group(str) == [some |-> TRUE, str |-> str]

\* (?P<value>\d+(\.\d*)?)\s*(?P<unit>[[:alpha:]]*), searched anywhere in s:
\* the match starts at the first digit and every later part is greedy.
dist_reg(s) ==
    IF \A i \in 1..Len(s) : s[i] \notin DigitChars
    THEN [matched |-> FALSE, value |-> NoGroup, unit |-> NoGroup]
    ELSE LET i0 == CHOOSE i \in 1..Len(s) :
                      /\ s[i] \in DigitChars
                      /\ \A k \in 1..(i - 1) : s[k] \notin DigitChars
             i1 == SpanEnd(s, i0, DigitChars)
             i2 == IF i1 <= Len(s) /\ s[i1] = "."
                   THEN SpanEnd(s, i1 + 1, DigitChars) ELSE i1
             u0 == SpanEnd(s, i2, SpaceChars)
             u1 == SpanEnd(s, u0, AlphaChars)
         IN  [matched |-> TRUE,
              value |-> Group(SubSeq(s, i0, i2 - 1)),
              unit |-> Group(SubSeq(s, u0, u1 - 1))]

\* Start of the last occurrence of lit in s that leaves at least one
\* character between from and itself (0 if there is none): where a greedy
\* ".+" started at from stops so that lit follows it.
LastLit(s, from, lit) ==
    LET starts == {j \in (from + 1)..(Len(s) - Len(lit) + 1) :
                      SubSeq(s, j, j + Len(lit) - 1) = lit}
    IN  IF starts = {} THEN 0
        ELSE CHOOSE j \in starts : \A k \in starts : k <= j

\* ((?P<hours>.+)\s*h)?\s*((?P<minutes>.+)\s*min)?((?P<seconds>.+)\s*(s|sec))?
\* Every part is optional, so the search always matches at the start of s;
\* each group participates when it can, and its ".+" takes everything up to
\* the last terminator, whitespace included.
time_reg(s) ==
    LET hj == LastLit(s, 1, <<"h">>)
        p1 == IF hj > 0 THEN hj + 1 ELSE 1
        p2 == SpanEnd(s, p1, SpaceChars)
        mj == LastLit(s, p2, <<"m", "i", "n">>)
        p3 == IF mj > 0 THEN mj + 3 ELSE p2
        sj == LastLit(s, p3, <<"s">>)
    IN  [matched |-> TRUE,
         hours |-> IF hj > 0 THEN Group(SubSeq(s, 1, hj - 1)) ELSE NoGroup,
         minutes |-> IF mj > 0 THEN Group(SubSeq(s, p2, mj - 1)) ELSE NoGroup,
         seconds |-> IF sj > 0 THEN Group(SubSeq(s, p3, sj - 1)) ELSE NoGroup]

(***************************************************************************)
(* uom: a quantity is its value in the base unit; new::<U>(v) multiplies   *)
(* by U's coefficient and get::<U>() divides by it.                        *)
(***************************************************************************)
meter == Fin(1, 1)

kilometer == Fin(1000, 1)

mile == Fin(1609344, 1000)

yard == Fin(9144, 10000)

foot == Fin(3048, 10000)

second == Fin(1, 1)

minute == Fin(60, 1)

hour == Fin(3600, 1)

kilometer_per_hour == FDiv(kilometer, hour)

mile_per_hour == FDiv(mile, hour)

New(unit, v) == FMul(v, unit)

Get(unit, q) == FDiv(q, unit)

Trunc(unit, q) == New(unit, FTrunc(Get(unit, q)))

(***************************************************************************)
(* Run::from_options.  An anyhow error is the chain of its messages,       *)
(* outermost context first; arg is the text a message was formatted with.  *)
(***************************************************************************)
Msg(m) == [msg |-> m, arg |-> <<>>]

MsgArg(m, a) == [msg |-> m, arg |-> a]

Ok(v) == [ok |-> TRUE, v |-> v, err |-> <<>>]

Err(chain) == [ok |-> FALSE, v |-> Zero, err |-> chain]

Txt(str) ==
    CASE str = "m" -> <<"m">>
      [] str = "meter" -> <<"m", "e", "t", "e", "r">>
      [] str = "meters" -> <<"m", "e", "t", "e", "r", "s">>
      [] str = "km" -> <<"k", "m">>
      [] str = "kilometer" -> <<"k", "i", "l", "o", "m", "e", "t", "e", "r">>
      [] str = "kilometers" -> <<"k", "i", "l", "o", "m", "e", "t", "e", "r", "s">>
      [] str = "mi" -> <<"m", "i">>
      [] str = "mile" -> <<"m", "i", "l", "e">>
      [] str = "miles" -> <<"m", "i", "l", "e", "s">>
      [] str = "yd" -> <<"y", "d">>
      [] str = "yard" -> <<"y", "a", "r", "d">>
      [] str = "yards" -> <<"y", "a", "r", "d", "s">>
      [] str = "ft" -> <<"f", "t">>
      [] str = "foot" -> <<"f", "o", "o", "t">>
      [] str = "feet" -> <<"f", "e", "e", "t">>

\* UnitMatch with the yard and foot arms exchanged.
UnitMatch_swapped(dist_unit) ==
    IF dist_unit \in {Txt("m"), Txt("meter"), Txt("meters")}
    THEN [known |-> TRUE, unit |-> meter]
    ELSE IF dist_unit \in {Txt("km"), Txt("kilometer"), Txt("kilometers")}
    THEN [known |-> TRUE, unit |-> kilometer]
    ELSE IF dist_unit \in {Txt("mi"), Txt("mile"), Txt("miles")}
    THEN [known |-> TRUE, unit |-> mile]
    ELSE IF dist_unit \in {Txt("yd"), Txt("yard"), Txt("yards")}
    THEN [known |-> TRUE, unit |-> foot]
    ELSE IF dist_unit \in {Txt("ft"), Txt("foot"), Txt("feet")}
    THEN [known |-> TRUE, unit |-> yard]
    ELSE [known |-> FALSE, unit |-> meter]

\* Lines 54-61: the match on the lower-cased unit.
UnitMatch(dist_unit) ==
    IF dist_unit \in {Txt("m"), Txt("meter"), Txt("meters")}
    THEN [known |-> TRUE, unit |-> meter]
    ELSE IF dist_unit \in {Txt("km"), Txt("kilometer"), Txt("kilometers")}
    THEN [known |-> TRUE, unit |-> kilometer]
    ELSE IF dist_unit \in {Txt("mi"), Txt("mile"), Txt("miles")}
    THEN [known |-> TRUE, unit |-> mile]
    ELSE IF dist_unit \in {Txt("yd"), Txt("yard"), Txt("yards")}
    THEN [known |-> TRUE, unit |-> yard]
    ELSE IF dist_unit \in {Txt("ft"), Txt("foot"), Txt("feet")}
    THEN [known |-> TRUE, unit |-> foot]
    ELSE [known |-> FALSE, unit |-> meter]

\* Lines 54-61, for the parsed value and the lower-cased unit.
DistanceOfUnit(dist_value, dist_unit, m) ==
    IF ~m.known
    THEN Err(<<MsgArg("Unknown unit \"{}\".", dist_unit)>>)
    ELSE Ok(New(m.unit, dist_value))

\* Lines 39-61, for the captures of dist_reg.
DistanceOfCaps(dist_caps, dist_value) ==
    IF ~dist_caps.matched
    THEN Err(<<Msg("Could not parse distance.")>>)
    ELSE IF ~dist_caps.value.some
    THEN Err(<<Msg("Could not find a value for distance.")>>)
    ELSE IF ~dist_value.ok
    THEN Err(<<Msg("Could not parse distance value as number."),
               Msg("invalid float literal")>>)
    ELSE IF ~dist_caps.unit.some
    THEN Err(<<Msg("Could not find a unit for distance.")>>)
    ELSE DistanceOfUnit(dist_value.v, to_lowercase(dist_caps.unit.str),
                        UnitMatch(to_lowercase(dist_caps.unit.str)))

\* Lines 37-61: the distance of the Run, or the error from_options returns.
ParseDistance(text) ==
    DistanceOfCaps(dist_reg(text), ParseF64(dist_reg(text).value.str))

\* Lines 79-85: the closure group_to_value.
ValueOfGroup(g, p) ==
    IF p.ok THEN Ok(p.v)
    ELSE Err(<<MsgArg("\"{}\" is not a number", g.str),
               Msg("invalid float literal")>>)

group_to_value(g) ==
    IF ~g.some THEN Ok(Zero) ELSE ValueOfGroup(g, ParseF64(g.str))

\* Lines 86-94: the three values in turn, then their sum.
TimeOfValues(hours, minutes, seconds) ==
    IF ~hours.ok
    THEN Err(<<Msg("Could not parse hours value as number.")>> \o hours.err)
    ELSE IF ~minutes.ok
    THEN Err(<<Msg("Could not parse minutes value as number.")>> \o minutes.err)
    ELSE IF ~seconds.ok
    THEN Err(<<Msg("Could not parse seconds value as number.")>> \o seconds.err)
    ELSE Ok(FAdd(FAdd(New(hour, hours.v), New(minute, minutes.v)),
                 New(second, seconds.v)))

\* TimeOfCaps without the check of lines 71-77.
TimeOfCaps_unchecked(time_caps) ==
    IF ~time_caps.matched
    THEN Err(<<Msg("Could not parse time.")>>)
    ELSE TimeOfValues(group_to_value(time_caps.hours),
                      group_to_value(time_caps.minutes),
                      group_to_value(time_caps.seconds))

\* Lines 67-94, for the captures of time_reg.
TimeOfCaps(time_caps) ==
    IF ~time_caps.matched
    THEN Err(<<Msg("Could not parse time.")>>)
    ELSE IF ~(time_caps.hours.some \/ time_caps.minutes.some
                \/ time_caps.seconds.some)
    THEN Err(<<Msg("No hours, no minutes, and no seconds given.")>>)
    ELSE TimeOfValues(group_to_value(time_caps.hours),
                      group_to_value(time_caps.minutes),
                      group_to_value(time_caps.seconds))

\* Lines 63-94: the time of the Run, or the error from_options returns.
ParseTime(text) == TimeOfCaps(time_reg(text))

(***************************************************************************)
(* The Run calculator and display_time.                                    *)
(***************************************************************************)
average_velocity(r) == FDiv(r.distance, r.time)

\* time_for_distance with the quotient inverted.
time_for_distance_inverted(r, other_distance) ==
    FMul(FDiv(r.distance, other_distance), r.time)

time_for_distance(r, other_distance) ==
    FMul(FDiv(other_distance, r.distance), r.time)

\* The components display_time writes, in order; a seconds value is what
\* "{:.3}" shows of it.
Shown(unit, val) == [unit |-> unit, val |-> val]

\* display_time that shows the minutes whenever they are not negative.
display_time_eager(time) ==
    LET hours == Trunc(hour, time)
        t1 == FSub(time, hours)
        minutes == Trunc(minute, t1)
        seconds == FSub(t1, minutes)
        h == AsI32(Get(hour, hours))
        m == AsI32(Get(minute, minutes))
        s == Get(second, seconds)
    IN  IF h > 0
        THEN <<Shown("h", Fin(h, 1)), Shown("min", Fin(m, 1)), Shown("s", Round3(s))>>
        ELSE IF m >= 0
        THEN <<Shown("min", Fin(m, 1)), Shown("s", Round3(s))>>
        ELSE <<Shown("s", Round3(s))>>

display_time(time) ==
    LET hours == Trunc(hour, time)
        t1 == FSub(time, hours)
        minutes == Trunc(minute, t1)
        seconds == FSub(t1, minutes)
        h == AsI32(Get(hour, hours))
        m == AsI32(Get(minute, minutes))
        s == Get(second, seconds)
    IN  IF h > 0
        THEN <<Shown("h", Fin(h, 1)), Shown("min", Fin(m, 1)), Shown("s", Round3(s))>>
        ELSE IF m > 0
        THEN <<Shown("min", Fin(m, 1)), Shown("s", Round3(s))>>
        ELSE <<Shown("s", Round3(s))>>

(***************************************************************************)
(* The command lines explored.                                             *)
(***************************************************************************)
MaxDistLen == 3

MaxTimeLen == 3

Texts(alphabet, maxLen) == UNION {[1..n -> alphabet] : n \in 0..maxLen}

UpperChar(c) ==
    IF \E i \in 1..26 : LowerSeq[i] = c
    THEN UpperSeq[CHOOSE i \in 1..26 : LowerSeq[i] = c]
    ELSE c

AllCaps(s) == [i \in 1..Len(s) |-> UpperChar(s[i])]

Capitalised(s) == [i \in 1..Len(s) |-> IF i = 1 THEN UpperChar(s[i]) ELSE s[i]]

UnitNames ==
    {"m", "meter", "meters", "km", "kilometer", "kilometers", "mi", "mile",
     "miles", "yd", "yard", "yards", "ft", "foot", "feet"}

KnownTokens ==
    UNION {{Txt(u), AllCaps(Txt(u)), Capitalised(Txt(u))} : u \in UnitNames}

OtherTokens == {<<>>, <<"x">>, <<"k">>, <<"k", "m", "s">>, <<"m", "e", "t", "r", "e">>}

DistNumerals == {<<"1", "0">>, <<"5">>, <<"2", ".", "5">>}

Seps == {<<>>, <<" ">>}

\* A numeral, optional whitespace and a unit token.
DistComposed ==
    {n \o w \o u : n \in DistNumerals, w \in Seps, u \in KnownTokens \cup OtherTokens}

DistAlphabet == {"1", "0", ".", "k", "m", " ", "-"}

DistEnum == Texts(DistAlphabet, MaxDistLen)

DistFew == {<<"1", "0", "k", "m">>, <<"k", "m">>}

HourNumerals == {<<"1">>, <<"2">>}

MinuteNumerals == {<<"5">>, <<"9", "0">>}

SecondNumerals == {<<"3", "0">>, <<"4", "5">>}

\* The text of the components present, hours then minutes then seconds,
\* with w between neighbours; an absent component is <<>>.
Join(a, b, w) == IF a = <<>> \/ b = <<>> THEN a \o b ELSE a \o w \o b

HPart(H) == IF H = <<>> THEN <<>> ELSE H \o <<"h">>

MPart(M) == IF M = <<>> THEN <<>> ELSE M \o <<"m", "i", "n">>

SPart(S) == IF S = <<>> THEN <<>> ELSE S \o <<"s">>

Compose(H, M, S, w) == Join(Join(HPart(H), MPart(M), w), SPart(S), w)

TimeComposed ==
    {Compose(H, M, S, w) : H \in HourNumerals \cup {<<>>},
                           M \in MinuteNumerals \cup {<<>>},
                           S \in SecondNumerals \cup {<<>>},
                           w \in Seps}

TimeNamed ==
    {<<"a", "b", "c">>, <<"h", " ", "m", "i", "n", " ", "s">>,
     <<"5", "0", "m", "i", "n">>, <<"2", "h", " ", "3", "0", "m", "i", "n">>,
     <<"-", "9", "0", "s">>, <<"1", ".", "5", "s">>, <<"3", "0", "s", "e", "c">>,
     <<"1", "e", "3", "s">>, <<"i", "n", "f", "s">>, <<"n", "a", "n", "s">>}

TimeAlphabet == {"1", "0", "-", " ", "h", "m", "i", "n", "s"}

TimeEnum == Texts(TimeAlphabet, MaxTimeLen)

TimeFew == {<<"4", "5", "s">>, <<"0", "s">>, <<"-", "5", "s">>}

CommandLines ==
    ((DistComposed \cup DistEnum) \X TimeFew)
        \cup (DistFew \X (TimeComposed \cup TimeNamed \cup TimeEnum))

(***************************************************************************)
(* main as a state machine.                                                *)
(***************************************************************************)
VARIABLES distance_text, time_text, verbose, use_miles, pc, distance, run,
          err, out

vars == <<distance_text, time_text, verbose, use_miles, pc, distance, run,
          err, out>>

options == <<distance_text, time_text, verbose, use_miles>>

NoLength == [some |-> FALSE, v |-> Zero]

NoRun == [some |-> FALSE, distance |-> Zero, time |-> Zero]

Line(kind, name, value, shown) ==
    [line |-> kind, name |-> name, value |-> value, shown |-> shown]

Named(name, q) == [name |-> name, q |-> q]

\* Lines 180-234.
distances ==
    IF use_miles
    THEN <<Named("100 yd", New(yard, Fin(100, 1))),
           Named("1/8 mi", New(mile, Fin(125, 1000))),
           Named("1/4 mi", New(mile, Fin(25, 100))),
           Named("1 mi", New(mile, Fin(1, 1))),
           Named("half marathon", New(kilometer, Fin(210975, 10000))),
           Named("marathon", New(kilometer, Fin(42195, 1000)))>>
    ELSE <<Named("100 m", New(meter, Fin(100, 1))),
           Named("1 km", New(kilometer, Fin(1, 1))),
           Named("5 km", New(kilometer, Fin(5, 1))),
           Named("10 km", New(kilometer, Fin(10, 1))),
           Named("half marathon", New(kilometer, Fin(210975, 10000))),
           Named("marathon", New(kilometer, Fin(42195, 1000)))>>

\* Lines 254-279.
velocities ==
    <<Named("Ashprihanal Aalto's 3100 mi (longest ultra marathon) WR",
            New(kilometer_per_hour, Fin(51480, 10000))),
      Named("Yohann Diniz' 50 km race walk WR",
            New(kilometer_per_hour, Fin(141143, 10000))),
      Named("Eliud Kipchoge's inofficial marathon WR",
            New(kilometer_per_hour, Fin(211563, 10000))),
      Named("Kenenisa Bekele's 10000 m WR",
            New(kilometer_per_hour, Fin(228205, 10000))),
      Named("Usain Bolt's 100 m WR",
            New(kilometer_per_hour, Fin(375783, 10000))),
      Named("Cheetah Sarah's 100 m animal WR",
            New(kilometer_per_hour, Fin(605042, 10000)))>>

Init ==
    /\ \E line \in CommandLines :
          /\ distance_text = line[1]
          /\ time_text = line[2]
    /\ verbose \in BOOLEAN
    /\ use_miles \in BOOLEAN
    /\ pc = "parse_distance"
    /\ distance = NoLength
    /\ run = NoRun
    /\ err = <<>>
    /\ out = <<>>

\* from_options, lines 37-61.
DistanceStep ==
    /\ pc = "parse_distance"
    /\ LET r == ParseDistance(distance_text)
       IN  IF r.ok
           THEN /\ distance' = [some |-> TRUE, v |-> r.v]
                /\ pc' = "parse_time"
                /\ err' = err
           ELSE /\ distance' = distance
                /\ pc' = "from_options_err"
                /\ err' = r.err
    /\ UNCHANGED <<options, run, out>>

\* TimeStep that builds a Run from the distance alone when the time fails.
TimeStep_partial ==
    /\ pc = "parse_time"
    /\ LET r == ParseTime(time_text)
       IN  /\ run' = [some |-> TRUE, distance |-> distance.v, time |-> r.v]
           /\ pc' = "print_summary"
           /\ err' = r.err
    /\ UNCHANGED <<options, distance, out>>

\* from_options, lines 63-96.
TimeStep ==
    /\ pc = "parse_time"
    /\ LET r == ParseTime(time_text)
       IN  IF r.ok
           THEN /\ run' = [some |-> TRUE, distance |-> distance.v, time |-> r.v]
                /\ pc' = "print_summary"
                /\ err' = err
           ELSE /\ run' = run
                /\ pc' = "from_options_err"
                /\ err' = r.err
    /\ UNCHANGED <<options, distance, out>>

\* main, lines 144-145: the error leaves main with one more context.
MainFail ==
    /\ pc = "from_options_err"
    /\ err' = <<Msg("Could not understand the passed arguments.")>> \o err
    /\ pc' = "exit_err"
    /\ UNCHANGED <<options, distance, run, out>>

\* main, lines 146-159.
PrintSummary ==
    /\ pc = "print_summary"
    /\ out' = Append(out,
                 IF use_miles
                 THEN Line("summary", "mi", Round3(Get(mile, run.distance)),
                           display_time(run.time))
                 ELSE Line("summary", "km", Round3(Get(kilometer, run.distance)),
                           display_time(run.time)))
    /\ pc' = "print_velocity"
    /\ UNCHANGED <<options, distance, run, err>>

\* main, lines 160-177.
PrintVelocity ==
    /\ pc = "print_velocity"
    /\ out' = Append(out,
                 IF use_miles
                 THEN Line("velocity", "mi/h",
                           Round3(Get(mile_per_hour, average_velocity(run))), <<>>)
                 ELSE Line("velocity", "km/h",
                           Round3(Get(kilometer_per_hour, average_velocity(run))), <<>>))
    /\ pc' = IF verbose THEN "print_distances" ELSE "return"
    /\ UNCHANGED <<options, distance, run, err>>

\* main, lines 236-252.
PrintDistTable ==
    /\ pc = "print_distances"
    /\ out' = out
              \o <<Line("header", "This is how long you would have needed for other distances:",
                        Zero, <<>>)>>
              \o [i \in 1..Len(distances) |->
                    Line("distance", distances[i].name, Zero,
                         display_time(time_for_distance(run, distances[i].q)))]
    /\ pc' = "print_velocities"
    /\ UNCHANGED <<options, distance, run, err>>

\* main, lines 281-297.
PrintVelTable ==
    /\ pc = "print_velocities"
    /\ out' = out
              \o <<Line("header", "Your average velocity compared to those of other performances:",
                        Zero, <<>>)>>
              \o [i \in 1..Len(velocities) |->
                    Line("times", velocities[i].name,
                         Round3(FDiv(average_velocity(run), velocities[i].q)), <<>>)]
    /\ pc' = "return"
    /\ UNCHANGED <<options, distance, run, err>>

\* main, line 299.
ReturnOk ==
    /\ pc = "return"
    /\ pc' = "exit_ok"
    /\ UNCHANGED <<options, distance, run, err, out>>

Next ==
    \/ DistanceStep
    \/ TimeStep
    \/ MainFail
    \/ PrintSummary
    \/ PrintVelocity
    \/ PrintDistTable
    \/ PrintVelTable
    \/ ReturnOk

Spec == Init /\ [][Next]_vars

(***************************************************************************)
(* Properties.                                                             *)
(***************************************************************************)
\* The distance has been searched and parsed, and nothing else has run.
AfterDistanceStep ==
    \/ pc = "parse_time"
    \/ pc = "from_options_err" /\ ~distance.some

\* The time has been searched and parsed.
AfterTimeStep == distance.some /\ pc \notin {"parse_distance", "parse_time"}

\* The error from_options returned, without the context main adds.
FromOptionsErr == IF pc = "exit_err" THEN Tail(err) ELSE err

Failed == pc \in {"from_options_err", "exit_err"}

NonNegative(x) == (x.k = "fin" /\ x.n >= 0) \/ (x.k = "inf" /\ x.n = 1)

FLeq(x, y) == x = y \/ FLess(x, y)

FAbs(x) == IF x.n < 0 THEN FNeg(x) ELSE x

T_1h_5min_30s == <<"1", "h", " ", "5", "m", "i", "n", " ", "3", "0", "s">>

T_h_min_s == <<"h", " ", "m", "i", "n", " ", "s">>

T_abc == <<"a", "b", "c">>

\* C1: every time text of one to three components "<H>h", "<M>min", "<S>s"
\* in that order, separated by whitespace, is accepted and gives a Run whose
\* time is 3600*H + 60*M + S seconds ("1h 5min 30s" gives 3930 s, "45s"
\* 45 s, "90min" 5400 s).
C1_ComponentsAccepted ==
    /\ \A H \in HourNumerals \cup {<<>>}, M \in MinuteNumerals \cup {<<>>},
          S \in SecondNumerals \cup {<<>>} :
          ( /\ AfterTimeStep
            /\ <<H, M, S>> # <<<<>>, <<>>, <<>>>>
            /\ time_text = Compose(H, M, S, <<" ">>) )
          => /\ run.some
             /\ run.time = Fin(3600 * DecVal(H) + 60 * DecVal(M) + DecVal(S), 1)
    /\ (AfterTimeStep /\ time_text = T_1h_5min_30s)
          => (run.some /\ run.time = Fin(3930, 1))
    /\ (AfterTimeStep /\ time_text = <<"4", "5", "s">>)
          => (run.some /\ run.time = Fin(45, 1))
    /\ (AfterTimeStep /\ time_text = <<"9", "0", "m", "i", "n">>)
          => (run.some /\ run.time = Fin(5400, 1))

\* The meters in one unit, times 10000, by the name of the unit.
UnitGroups ==
    <<[names |-> {"m", "meter", "meters"}, e4 |-> 10000],
      [names |-> {"km", "kilometer", "kilometers"}, e4 |-> 10000000],
      [names |-> {"mi", "mile", "miles"}, e4 |-> 16093440],
      [names |-> {"yd", "yard", "yards"}, e4 |-> 9144],
      [names |-> {"ft", "foot", "feet"}, e4 |-> 3048]>>

Spellings(names) ==
    UNION {{Txt(u), AllCaps(Txt(u)), Capitalised(Txt(u))} : u \in names}

\* Ten times the value of a numeral of DistNumerals.
Tenths(n) ==
    CASE n = <<"1", "0">> -> 100
      [] n = <<"5">> -> 50
      [] n = <<"2", ".", "5">> -> 25

\* The composed distance texts with a known unit, each with its meters.
KnownCases ==
    {[text |-> n \o w \o u, meters |-> Fin(Tenths(n) * UnitGroups[g].e4, 100000)] :
        n \in DistNumerals, w \in Seps,
        <<g, u>> \in UNION {{<<g, u>> : u \in Spellings(UnitGroups[g].names)} :
                               g \in 1..Len(UnitGroups)}}

\* The composed distance texts with another token, each with its token.
OtherCases ==
    {[text |-> n \o w \o u, token |-> u] :
        n \in DistNumerals, w \in Seps, u \in OtherTokens}

\* C2: a unit token after the numeral v resolves case-insensitively:
\* m/meter/meters to v meters, km/kilometer/kilometers to 1000*v,
\* mi/mile/miles to 1609.344*v, yd/yard/yards to 0.9144*v, ft/foot/feet to
\* 0.3048*v ("10km" is 10000 m, "5mi" is 8046.72 m); every other token, the
\* empty one included, is rejected with the unknown-unit error and no length.
C2_UnitResolution ==
    AfterDistanceStep =>
      /\ \A c \in KnownCases :
            distance_text = c.text
            => (distance.some /\ distance.v = c.meters)
      /\ \A c \in OtherCases :
            distance_text = c.text
            => /\ ~distance.some
               /\ pc = "from_options_err"
               /\ err = <<MsgArg("Unknown unit \"{}\".", c.token)>>
      /\ distance_text = <<"1", "0", "k", "m">> => distance.v = Fin(10000, 1)
      /\ distance_text = <<"5", "m", "i">> => distance.v = Fin(804672, 100)

C2_Witness ==
    /\ pc = "parse_time"
    /\ distance_text = <<"5", " ", "Y", "A", "R", "D", "S">>
    /\ distance = [some |-> TRUE, v |-> Fin(4572, 1000)]

NotANumber(e) ==
    /\ Len(e) >= 2
    /\ e[1].msg \in {"Could not parse hours value as number.",
                     "Could not parse minutes value as number.",
                     "Could not parse seconds value as number."}
    /\ e[2].msg = "\"{}\" is not a number"

NoComponent(e) == e = <<Msg("No hours, no minutes, and no seconds given.")>>

NoMatch(e) == e = <<Msg("Could not parse time.")>>

\* C3 as stated: the time texts "", "abc" and "h min s" all fail, with the
\* no-component error or the pattern-did-not-match error and never with the
\* not-a-number error, and give no Run.
C3_EmptyOrNoMatch ==
    (AfterTimeStep /\ time_text \in {<<>>, T_abc, T_h_min_s})
    => /\ Failed
       /\ run = NoRun
       /\ NoComponent(FromOptionsErr) \/ NoMatch(FromOptionsErr)
       /\ ~NotANumber(FromOptionsErr)

\* C3 amended: the time texts "", "abc" and "h min s" all fail and give no
\* Run; "" and "abc" fail with the no-component error, "h min s" fails with
\* the not-a-number error for its minutes group "h ".
C3_Rejected ==
    /\ (AfterTimeStep /\ time_text \in {<<>>, T_abc, T_h_min_s})
       => (Failed /\ run = NoRun)
    /\ (AfterTimeStep /\ time_text \in {<<>>, T_abc})
       => NoComponent(FromOptionsErr)
    /\ (AfterTimeStep /\ time_text = T_h_min_s)
       => /\ NotANumber(FromOptionsErr)
          /\ FromOptionsErr[1].msg = "Could not parse minutes value as number."
          /\ FromOptionsErr[2].arg = <<"h", " ">>

C3_Witness ==
    /\ pc = "exit_err"
    /\ distance.some
    /\ time_text = T_h_min_s
    /\ NotANumber(FromOptionsErr)

\* C4: every Run that from_options returns has a distance >= 0 and a
\* time >= 0.
C4_NonNegativeRun ==
    run.some => (NonNegative(run.distance) /\ NonNegative(run.time))

\* A numeral at the very start, optional whitespace, and letters up to the
\* end of the text.
WellFormedDistance(s) ==
    \E i \in 1..Len(s) : \E j \in i..Len(s) : \E k \in j..Len(s) :
        /\ \A p \in 1..i : s[p] \in DigitChars
        /\ j = i \/ (s[i + 1] = "." /\ \A p \in (i + 2)..j : s[p] \in DigitChars)
        /\ \A p \in (j + 1)..k : s[p] \in SpaceChars
        /\ \A p \in (k + 1)..Len(s) : s[p] \in AlphaChars

\* C5: a distance text parses only when it is an unsigned numeral at its
\* very start, optional whitespace and an alphabetic unit token that ends
\* it; a sign, characters before the numeral or characters after the unit
\* make from_options reject it.
C5_WholeTextMatched ==
    distance.some => WellFormedDistance(distance_text)

\* The times main hands to display_time, with what was written for each:
\* the time of the Run in the first line, and the projected times in the
\* rows after the first header.
Displayed ==
    {<<run.time, out[i].shown>> : i \in {i \in 1..Len(out) : out[i].line = "summary"}}
    \cup {<<time_for_distance(run, distances[i - 3].q), out[i].shown>> :
            i \in {i \in 1..Len(out) : out[i].line = "distance"}}

Units(shown) == [i \in 1..Len(shown) |-> shown[i].unit]

Close(x, y) == FLeq(FAbs(FSub(x, y)), Fin(1, 2000))

\* C6 for one finite duration t and the components written for it.
Cascade(t, shown) ==
    LET sgn == Sgn(t)
        whole == Abs(t.n) \div t.d
        h == sgn * (whole \div 3600)
        m == sgn * ((whole % 3600) \div 60)
        s == FSub(t, Fin(3600 * h + 60 * m, 1))
    IN  IF h > 0
        THEN /\ Units(shown) = <<"h", "min", "s">>
             /\ shown[1].val = Fin(h, 1)
             /\ shown[2].val = Fin(m, 1)
             /\ Close(shown[3].val, s)
        ELSE IF m > 0
        THEN /\ Units(shown) = <<"min", "s">>
             /\ shown[1].val = Fin(m, 1)
             /\ Close(shown[2].val, s)
        ELSE /\ Units(shown) = <<"s">>
             /\ Close(shown[1].val, s)

\* C6: display_time renders hours, minutes and seconds when the whole hours
\* h > 0 (3600 s is 1 h, 0 min, 0 s), minutes and seconds when h = 0 and
\* the whole remaining minutes m > 0 (1500 s is 25 min, 0 s), and only the
\* seconds otherwise (0 s is 0 s).
C6_Cascade ==
    \A d \in Displayed :
        /\ d[1].k = "fin" => Cascade(d[1], d[2])
        /\ d[1] = Fin(3600, 1)
           => d[2] = <<Shown("h", Fin(1, 1)), Shown("min", Zero), Shown("s", Zero)>>
        /\ d[1] = Fin(1500, 1)
           => d[2] = <<Shown("min", Fin(25, 1)), Shown("s", Zero)>>
        /\ d[1] = Zero => d[2] = <<Shown("s", Zero)>>

C6_Witness ==
    /\ pc = "return"
    /\ verbose
    /\ <<Fin(3600, 1), <<Shown("h", Fin(1, 1)), Shown("min", Zero), Shown("s", Zero)>>>>
          \in Displayed
    /\ \E d \in Displayed : Len(d[2]) = 2
    /\ \E d \in Displayed : Len(d[2]) = 1

TenKmIn50Min == [some |-> TRUE, distance |-> Fin(10000, 1), time |-> Fin(3000, 1)]

OtherDistances ==
    {distances[i].q : i \in 1..Len(distances)} \cup {run.distance}

\* C7: for a Run with a non-zero distance and a positive other_distance,
\* time_for_distance(other_distance) * run.distance = other_distance *
\* run.time, stated as the equality of the ratios result / run.time and
\* other_distance / run.distance (and result = 0 for a zero time);
\* time_for_distance(run.distance) = run.time, and 10 km in 50 min projects
\* to 1500 s for 5 km.  Checked where main has just projected the Run onto
\* its table of distances.
C7_LinearExtrapolation ==
    (pc = "print_velocities" /\ ~IsZero(run.distance) /\ run.time.k = "fin")
    => /\ \A o \in OtherDistances :
            IF IsZero(run.time)
            THEN time_for_distance(run, o) = Zero
            ELSE FDiv(time_for_distance(run, o), run.time) = FDiv(o, run.distance)
       /\ time_for_distance(run, run.distance) = run.time
       /\ run = TenKmIn50Min => time_for_distance(run, Fin(5000, 1)) = Fin(1500, 1)

C7_Witness ==
    /\ run = TenKmIn50Min
    /\ ~use_miles
    /\ pc = "print_velocities"
    /\ out[6] = Line("distance", "5 km", Zero,
                     <<Shown("min", Fin(25, 1)), Shown("s", Zero)>>)

\* C8: the average velocity of a Run whose time is zero is a fatal, reported
\* division-by-zero error: no velocity is printed for such a Run and main
\* does not return successfully.
C8_ZeroTimeReported ==
    (run.some /\ IsZero(run.time))
    => /\ pc # "exit_ok"
       /\ \A i \in 1..Len(out) : out[i].line \notin {"velocity", "times"}

\* C9: from_options returns an error and no Run when either text fails to
\* parse, main then ends with that error having printed nothing, and facts
\* are printed only after both texts have parsed.
C9_Atomic ==
    /\ Failed => (run = NoRun /\ out = <<>> /\ err # <<>>)
    /\ pc = "from_options_err"
       => ~(ParseDistance(distance_text).ok /\ ParseTime(time_text).ok)
    /\ pc = "exit_err"
       => err[1] = Msg("Could not understand the passed arguments.")
    /\ run.some
       => (distance.some /\ run.distance = distance.v /\ err = <<>> /\ ~Failed)
    /\ pc = "print_summary"
       => /\ run.some
          /\ ParseDistance(distance_text).ok
          /\ ParseTime(time_text).ok
    /\ out # <<>> => run.some
    /\ pc \in {"print_velocity", "print_distances", "print_velocities", "return", "exit_ok"}
       => (run.some /\ out # <<>>)
    /\ pc = "parse_time" => (run = NoRun /\ out = <<>>)

C9_Witness ==
    /\ pc = "exit_err"
    /\ distance.some
    /\ run = NoRun
    /\ out = <<>>

ShownValue(shown, unit) ==
    IF \E i \in 1..Len(shown) : shown[i].unit = unit
    THEN shown[CHOOSE i \in 1..Len(shown) : shown[i].unit = unit].val
    ELSE Zero

\* C10: for the time of every Run from_options returns, the components
\* display_time writes add up to the time: 3600*h + 60*m + s equals the
\* time (to the three decimals written), with 0 <= m <= 59 and 0 <= s < 60
\* next to a higher component.
C10_NothingDropped ==
    \A i \in 1..Len(out) :
        out[i].line = "summary"
        => LET shown == out[i].shown
               h == ShownValue(shown, "h")
               m == ShownValue(shown, "min")
               s == ShownValue(shown, "s")
           IN  /\ run.time.k = "fin"
               /\ s.k = "fin"
               /\ Close(FAdd(FAdd(New(hour, h), New(minute, m)), s), run.time)
               /\ Len(shown) >= 2
                  => /\ FLeq(Zero, m) /\ FLeq(m, Fin(59, 1))
                     /\ FLeq(Zero, s) /\ FLess(s, Fin(60, 1))

====
